---- MODULE Spec2Model ----
(***************************************************************************)
(* Model of src/scraper.py: the record extractor extract_game_info and the *)
(* pagination driver web_automation, with the browser page and the CSV     *)
(* sink they work on.                                                      *)
(*                                                                         *)
(* A Python str is a sequence of one-character strings.  An HTML element   *)
(* is the sequence of its text nodes; an attribute is one string.          *)
(***************************************************************************)
EXTENDS Integers, Sequences, FiniteSets, TLC

VARIABLES
    site,          \* the pages the site serves, page 1 first (environment)
    target,        \* page the site has been asked to show (0: none yet)
    dom,           \* page currently rendered in the browser (0: none yet)
    pc,            \* position of web_automation / extract_game_info
    err,           \* exception that ended the run ("" while none)
    opened,        \* the output file has been opened
    csv,           \* rows of the output file, header row included
    html_content,  \* markup captured by page.inner_html("body")
    games,         \* extract_game_info: item containers found
    sales_name,    \* extract_game_info: text of the campaign heading
    games_info,    \* extract_game_info: records built so far
    clock,         \* wall clock read by datetime.now()
    stale,         \* captures taken before the requested page had rendered
    visited,       \* history: index of every page whose markup was captured
    clicks         \* history: captured page index at each next-page click

vars == <<site, target, dom, pc, err, opened, csv, html_content, games,
          sales_name, games_info, clock, stale, visited, clicks>>

-----------------------------------------------------------------------------
(* Bounds of the model.                                                    *)

MaxItems == 2      \* item containers on one page
MaxPages == 2      \* pages of the site
MaxNodeLen == 3    \* characters of one text node in the text inputs
MaxClock == 1      \* seconds the wall clock may advance during a run
MaxStale == 1      \* captures that may precede the re-render they follow

-----------------------------------------------------------------------------
(* Strings.                                                                *)

RECURSIVE LStrip(_), RStrip(_), ReSubWs(_), Replace(_, _, _), DropLine(_),
          ReSubT(_), NodeText(_), Join(_, _)

IsWs(c) == c \in {" ", "\n", "\t"}

LStrip(s) ==
    IF s = <<>> THEN <<>>
    ELSE IF IsWs(Head(s)) THEN LStrip(Tail(s)) ELSE s

RStrip(s) ==
    IF s = <<>> THEN <<>>
    ELSE IF IsWs(s[Len(s)]) THEN RStrip(SubSeq(s, 1, Len(s) - 1)) ELSE s

\* str.strip()
Strip(s) == RStrip(LStrip(s))

\* Node.text(strip=True): every text node stripped, joined with no separator
NodeText(nodes) ==
    IF nodes = <<>> THEN <<>>
    ELSE Strip(Head(nodes)) \o NodeText(Tail(nodes))

\* re.sub(r"\s+", " ", s)
ReSubWs(s) ==
    IF s = <<>> THEN <<>>
    ELSE IF IsWs(Head(s)) THEN <<" ">> \o ReSubWs(LStrip(s))
    ELSE <<Head(s)>> \o ReSubWs(Tail(s))

StartsWith(s, p) == Len(s) >= Len(p) /\ SubSeq(s, 1, Len(p)) = p

\* s.replace(old, new), old non-empty
Replace(s, old, new) ==
    IF s = <<>> THEN <<>>
    ELSE IF StartsWith(s, old)
         THEN new \o Replace(SubSeq(s, Len(old) + 1, Len(s)), old, new)
    ELSE <<Head(s)>> \o Replace(Tail(s), old, new)

\* what is left of s after the match of ".*": the rest from the next newline
DropLine(s) ==
    IF s = <<>> THEN <<>>
    ELSE IF Head(s) = "\n" THEN s ELSE DropLine(Tail(s))

\* re.sub(r"T.*", "", s)
ReSubT(s) ==
    IF s = <<>> THEN <<>>
    ELSE IF Head(s) = "T" THEN ReSubT(DropLine(Tail(s)))
    ELSE <<Head(s)>> \o ReSubT(Tail(s))

\* sep.join(parts)
Join(sep, parts) ==
    IF parts = <<>> THEN <<>>
    ELSE IF Len(parts) = 1 THEN parts[1]
    ELSE parts[1] \o sep \o Join(sep, Tail(parts))

\* Python None, as a value no str equals
None == <<"<None>">>

-----------------------------------------------------------------------------
(* The record type and the output columns.                                 *)

\* dataclass Game: the field names in declaration order
GameFields ==
    <<"title", "release_date", "multiplayer", "age_criteria", "rating_system",
      "link", "img", "off_pct", "original_price", "discounted_price",
      "star_rating", "total_reviews", "optimization", "platforms",
      "description", "sales_title", "scrape_timestamp">>

\* COLUMN_NAMES = [field.name for field in fields(Game)]
COLUMN_NAMES == GameFields

-----------------------------------------------------------------------------
(* Markup.  An item container is a record of its sub-elements and          *)
(* attributes plus the set `absent` of those the markup does not hold.     *)

\* sub-elements located with css_first, by the text or attribute read
ElementSlots ==
    {"h3", "href", "src", "badge", "price_s", "price_new", "ratingValue",
     "reviewtotal", "paragraph3", "furthcontent"}
\* data-* attributes of the container read with game.attrs[...]
AttrSlots == {"releasedate", "multiplayer", "rating", "ratingsystem"}

\* sub-elements read through extract(): None when absent
OptionalSlots == {"ratingValue", "reviewtotal", "paragraph3"}

\* sub-elements and attributes dereferenced without a test
RaisingSlots == (ElementSlots \cup AttrSlots) \ OptionalSlots

\* "Rs" stands for the one character of the rupee sign
S_OFF == <<" ", "O", "F", "F">>
S_FullPrice ==
    <<"F", "u", "l", "l", " ", "p", "r", "i", "c", "e", " ", "w", "a", "s",
      "Rs">>
S_Rs == <<"Rs">>
S_https == <<"h", "t", "t", "p", "s", ":">>
S_CommaSpace == <<",", " ">>

\* a complete item container; id tells the fixtures apart
Item(id) ==
    [absent       |-> {},
     h3           |-> << <<" ", "G">>, <<id, " ", " ", "X", "\n">> >>,
     releasedate  |-> <<"2", "3", "-", "1", "2", "T", "0", "0">>,
     multiplayer  |-> <<"t", "r", "u", "e">>,
     rating       |-> <<"1", "6", "+">>,
     ratingsystem |-> <<"I", "A", "R", "C">>,
     href         |-> <<"/", "g", "/", id>>,
     src          |-> <<"/", "/", "i", "/", id>>,
     badge        |-> << <<"5", "0", "%", " ", "O", "F", "F">> >>,
     price_s      |-> << S_FullPrice \o <<"9", id>> >>,
     price_new    |-> << <<"Rs", "4", id>> >>,
     ratingValue  |-> << <<"4", ".", "5">> >>,
     reviewtotal  |-> << <<"1", "2">> >>,
     paragraph3   |-> << <<"o", "p", "t">> >>,
     furthcontent |-> << <<"d", " ", " ", id, "\n", " ", "e", " ">> >>,
     tags         |-> << << <<"P", "C">> >>, << <<" ", "X", "b", "o", "x">> >> >>]

Without(game, slots) == [game EXCEPT !.absent = slots]

\* the first match of a selector, or the attribute: present or not
Has(game, slot) == slot \notin game.absent

\* a page: the campaign heading h1.salesHeroHeading, the item containers
\* inside div.gameDivsWrapper, and which of the two the markup lacks
Page(absent, items) ==
    [absent |-> absent,
     h1     |-> << <<" ", "S", "a", "l", "e", "\n">> >>,
     items  |-> items]

-----------------------------------------------------------------------------
(* extract_game_info.                                                      *)

\* content.css("div.gameDivsWrapper div.m-product-placement-item")
CssGames(content) ==
    IF "wrapper" \in content.absent THEN <<>> ELSE content.items

\* the inner helper extract(html, selector)
extract(html, slot) ==
    IF Has(html, slot) THEN NodeText(html[slot]) ELSE None

\* datetime.now().strftime("%Y-%m-%d %H:%M:%S"), t seconds into the run
StrfTime(t) ==
    <<"2", "0", "2", "3", "-", "1", "2", "-", "2", "5", " ", "1", "0", ":",
      "0", "0", ":", "0">>
    \o << <<"0", "1", "2", "3", "4", "5", "6", "7", "8", "9">>[t + 1] >>

\* faulty variant: the discount badge is read through extract() as well
RaisesButBadge(game) == game.absent \cap (RaisingSlots \ {"badge"}) # {}

\* Game(...) raises: a dereferenced sub-element or attribute is absent
Raises(game) == game.absent \cap RaisingSlots # {}

\* asdict(Game(...)) for one container that does not raise
GameData(game, sales, now) ==
    [title            |-> ReSubWs(NodeText(game.h3)),
     release_date     |-> ReSubT(game.releasedate),
     multiplayer      |-> game.multiplayer,
     age_criteria     |-> game.rating,
     rating_system    |-> game.ratingsystem,
     link             |-> game.href,
     img              |-> S_https \o game.src,
     off_pct          |-> Replace(NodeText(game.badge), S_OFF, <<>>),
     original_price   |-> Replace(NodeText(game.price_s), S_FullPrice, <<>>),
     discounted_price |-> Replace(NodeText(game.price_new), S_Rs, <<>>),
     star_rating      |-> extract(game, "ratingValue"),
     total_reviews    |-> extract(game, "reviewtotal"),
     optimization     |-> extract(game, "paragraph3"),
     description      |->
         ReSubWs(Replace(NodeText(game.furthcontent), <<"\n">>, <<>>)),
     platforms        |->
         Join(S_CommaSpace,
              [k \in 1..Len(game.tags) |-> NodeText(game.tags[k])]),
     sales_title      |-> sales,
     scrape_timestamp |-> StrfTime(now)]

Abort(e) == pc' = "aborted" /\ err' = e

\* faulty variant: a missing heading yields an empty campaign title
ExtractBeginDefault ==
    /\ pc = "extract"
    /\ games' = CssGames(html_content)
    /\ games_info' = <<>>
    /\ sales_name' = IF "h1" \in html_content.absent
                     THEN <<>> ELSE NodeText(html_content.h1)
    /\ pc' = "loop"
    /\ UNCHANGED <<site, target, dom, err, opened, csv, html_content, clock,
                   stale, visited, clicks>>

\* lines 92-101: parse, select the containers, read the campaign heading
ExtractBegin ==
    /\ pc = "extract"
    /\ games' = CssGames(html_content)
    /\ games_info' = <<>>
    /\ IF "h1" \in html_content.absent
       THEN Abort("NoHeading") /\ UNCHANGED sales_name
       ELSE /\ sales_name' = NodeText(html_content.h1)
            /\ pc' = "loop"
            /\ UNCHANGED err
    /\ UNCHANGED <<site, target, dom, opened, csv, html_content, clock,
                   stale, visited, clicks>>

\* faulty variant: a container that raises ends the loop and the records
\* built so far are returned
ExtractItemPartial ==
    /\ pc = "loop"
    /\ Len(games_info) < Len(games)
    /\ LET game == games[Len(games_info) + 1] IN
       IF Raises(game)
       THEN pc' = "returned" /\ UNCHANGED <<err, games_info>>
       ELSE /\ games_info' =
                   Append(games_info, GameData(game, sales_name, clock))
            /\ UNCHANGED <<pc, err>>
    /\ UNCHANGED <<site, target, dom, opened, csv, html_content, games,
                   sales_name, clock, stale, visited, clicks>>

\* lines 110-148: one turn of the loop over the containers
ExtractItem ==
    /\ pc = "loop"
    /\ Len(games_info) < Len(games)
    /\ LET game == games[Len(games_info) + 1] IN
       IF Raises(game)
       THEN Abort("MalformedItem") /\ UNCHANGED games_info
       ELSE /\ games_info' =
                   Append(games_info, GameData(game, sales_name, clock))
            /\ UNCHANGED <<pc, err>>
    /\ UNCHANGED <<site, target, dom, opened, csv, html_content, games,
                   sales_name, clock, stale, visited, clicks>>

\* line 149: return games_info
ExtractReturn ==
    /\ pc = "loop"
    /\ Len(games_info) = Len(games)
    /\ pc' = "returned"
    /\ UNCHANGED <<site, target, dom, err, opened, csv, html_content, games,
                   sales_name, games_info, clock, stale, visited, clicks>>

-----------------------------------------------------------------------------
(* The CSV sink.                                                           *)

\* the csv module writes None as the empty string
CsvCell(v) == IF v = None THEN <<>> ELSE v

\* the keyword order of the Game(...) call, description before platforms
CallOrder ==
    [k \in 1..Len(COLUMN_NAMES) |->
        IF COLUMN_NAMES[k] = "platforms" THEN "description"
        ELSE IF COLUMN_NAMES[k] = "description" THEN "platforms"
        ELSE COLUMN_NAMES[k]]

\* faulty variant: the cells follow the order the record was built in
DictRowCallOrder(rowdict) ==
    [k \in 1..Len(COLUMN_NAMES) |-> CsvCell(rowdict[CallOrder[k]])]

\* DictWriter(f, fieldnames=COLUMN_NAMES): one row, a cell per column name
DictRow(rowdict) ==
    [k \in 1..Len(COLUMN_NAMES) |-> CsvCell(rowdict[COLUMN_NAMES[k]])]

\* faulty variant: the records of a page are written last first
WriteRowsReversed(rows, games_data) ==
    rows \o [k \in 1..Len(games_data) |->
                DictRow(games_data[Len(games_data) + 1 - k])]

\* csv_writer.writerows(games_data)
WriteRowsTo(rows, games_data) ==
    rows \o [k \in 1..Len(games_data) |-> DictRow(games_data[k])]

-----------------------------------------------------------------------------
(* The browser page.  A click on the next-page control asks the site for   *)
(* the following page; the listing is re-rendered at some later moment.    *)
(* Every browser operation is slowed by SLOW_MO, so it is during them that *)
(* the wall clock is seen to advance.                                      *)

\* the wall clock after a browser operation
Ticked(t) == t \in clock..(clock + 1) /\ t <= MaxClock

\* page.is_visible("li.paginatenext") on the rendered page
NextVisible == dom >= 1 /\ dom < Len(site)

\* the site re-renders the listing for the page it was last asked for
Render ==
    /\ dom < target
    /\ dom' = target
    /\ UNCHANGED <<site, target, pc, err, opened, csv, html_content, games,
                   sales_name, games_info, clock, stale, visited, clicks>>

-----------------------------------------------------------------------------
(* web_automation.                                                         *)

\* line 165: page.goto(start_url)
Goto ==
    /\ pc = "start"
    /\ \E ok \in BOOLEAN :
         IF ok
         THEN target' = 1 /\ dom' = 1 /\ pc' = "setup" /\ UNCHANGED err
         ELSE Abort("NavigationFailure") /\ UNCHANGED <<target, dom>>
    /\ UNCHANGED <<site, opened, csv, html_content, games, sales_name,
                   games_info, clock, stale, visited, clicks>>

\* lines 168-172: is_visible returns at once and its answer is dropped;
\* each click waits for its control and raises when it never shows
SelectPageSize ==
    /\ pc = "setup"
    /\ \E ok \in BOOLEAN :
         IF ok
         THEN pc' = "open" /\ UNCHANGED err
         ELSE Abort("ClickTimeout")
    /\ UNCHANGED <<site, target, dom, opened, csv, html_content, games,
                   sales_name, games_info, clock, stale, visited, clicks>>

\* lines 175-180: open the file, write the header, capture the markup
OpenSink ==
    /\ pc = "open"
    /\ \E ok \in BOOLEAN :
         IF ok
         THEN /\ opened' = TRUE
              /\ csv' = <<COLUMN_NAMES>>
              /\ html_content' = site[dom]
              /\ visited' = Append(visited, dom)
              /\ \E t \in 0..MaxClock : Ticked(t) /\ clock' = t
              /\ pc' = "extract"
              /\ UNCHANGED err
         ELSE /\ Abort("SinkOpenFailure")
              /\ UNCHANGED <<opened, csv, html_content, visited, clock>>
    /\ UNCHANGED <<site, target, dom, games, sales_name, games_info, stale,
                   clicks>>

\* line 185: csv_writer.writerows(games_data)
WriteRows ==
    /\ pc = "returned"
    /\ csv' = WriteRowsTo(csv, games_info)
    /\ pc' = "check"
    /\ UNCHANGED <<site, target, dom, err, opened, html_content, games,
                   sales_name, games_info, clock, stale, visited, clicks>>

\* lines 187, 192-194: is the next-page control visible?
CheckNext ==
    /\ pc = "check"
    /\ pc' = IF NextVisible THEN "click" ELSE "done"
    /\ UNCHANGED <<site, target, dom, err, opened, csv, html_content, games,
                   sales_name, games_info, clock, stale, visited, clicks>>

\* lines 189-190: click the control (the click waits for it and raises when
\* it is not there); the is_visible that follows waits for nothing
ClickNext ==
    /\ pc = "click"
    /\ IF NextVisible
       THEN /\ target' = IF target < Len(site) THEN target + 1 ELSE target
            /\ clicks' = Append(clicks, visited[Len(visited)])
            /\ pc' = "capture"
            /\ UNCHANGED err
       ELSE Abort("ClickTimeout") /\ UNCHANGED <<target, clicks>>
    /\ UNCHANGED <<site, dom, opened, csv, html_content, games, sales_name,
                   games_info, clock, stale, visited>>

\* line 191: html_content = page.inner_html("body")
Capture ==
    /\ pc = "capture"
    /\ dom < target => stale < MaxStale
    /\ stale' = IF dom < target THEN stale + 1 ELSE stale
    /\ html_content' = site[dom]
    /\ visited' = Append(visited, dom)
    /\ \E t \in 0..MaxClock : Ticked(t) /\ clock' = t
    /\ pc' = "extract"
    /\ UNCHANGED <<site, target, dom, err, opened, csv, games, sales_name,
                   games_info, clicks>>

-----------------------------------------------------------------------------
(* Inputs.                                                                 *)

SeqsUpTo(S, n) == UNION {[1..k -> S] : k \in 0..n}

\* the containers of a listing: complete, without the optional sub-elements,
\* and lacking the dereferenced sub-element or attribute m
Containers(m) ==
    {Item("1"), Without(Item("2"), OptionalSlots), Without(Item("3"), {m})}

AllContainers == UNION {Containers(m) : m \in RaisingSlots}

\* pages for extract_game_info alone
ExtractPages ==
    {Page(a, l) : a \in SUBSET {"h1", "wrapper"},
                  l \in SeqsUpTo(AllContainers, MaxItems)}

\* a listing of n containers in which complete ones and ones without the
\* optional sub-elements alternate
Listing(n) ==
    [k \in 1..n |->
        IF k % 2 = 1 THEN Item("1") ELSE Without(Item("2"), OptionalSlots)]

\* the listings of a site: well-formed, or full with one container lacking m
Listings(m) ==
    {Listing(n) : n \in 0..MaxItems}
    \cup {[Listing(MaxItems) EXCEPT ![j] = Without(Item("3"), {m})] :
             j \in 1..MaxItems}

\* pages of a site whose malformed container lacks m; a page that did not
\* render holds no listing
SitePages(m) ==
    {Page({}, l) : l \in Listings(m)}
    \cup {Page({"h1"}, <<Item("1")>>), Page({"wrapper"}, <<>>)}

Malformed(page) ==
    \E k \in 1..Len(page.items) : page.items[k].absent \cap RaisingSlots # {}

Defective(page) == page.absent # {} \/ Malformed(page)

\* the sites: up to MaxPages pages, at most one of them defective
Sites ==
    UNION {{s \in SeqsUpTo(SitePages(m), MaxPages) \ {<<>>} :
              Cardinality({k \in 1..Len(s) : Defective(s[k])}) <= 1} :
           m \in RaisingSlots}

Alphabet == {"a", " ", "\n", "\t"}

\* the text nodes of one element: one node, or two around a child element
NodeLists ==
    LET T == SeqsUpTo(Alphabet, MaxNodeLen) IN
    {<<n>> : n \in T} \cup {<<n, m>> : n \in T, m \in T}

TextPage(nodes) ==
    Page({}, <<[Item("1") EXCEPT !.h3 = nodes, !.furthcontent = nodes]>>)

NoHtml == Page({"h1", "wrapper"}, <<>>)

-----------------------------------------------------------------------------
(* Specifications.                                                         *)

Idle ==
    /\ err = ""
    /\ opened = FALSE
    /\ csv = <<>>
    /\ games = <<>>
    /\ sales_name = <<>>
    /\ games_info = <<>>
    /\ clock = 0
    /\ stale = 0
    /\ visited = <<>>
    /\ clicks = <<>>

\* web_automation(start_url, output) against a site
Init ==
    /\ site \in Sites
    /\ target = 0
    /\ dom = 0
    /\ pc = "start"
    /\ html_content = NoHtml
    /\ Idle

Next ==
    \/ Goto
    \/ SelectPageSize
    \/ OpenSink
    \/ ExtractBegin
    \/ ExtractItem
    \/ ExtractReturn
    \/ WriteRows
    \/ CheckNext
    \/ ClickNext
    \/ Capture
    \/ Render

Spec == Init /\ [][Next]_vars

\* extract_game_info(page_html) on its own
InitExtract ==
    /\ site = <<>>
    /\ target = 0
    /\ dom = 0
    /\ pc = "extract"
    /\ html_content \in ExtractPages
    /\ Idle

NextExtract == ExtractBegin \/ ExtractItem \/ ExtractReturn

SpecExtract == InitExtract /\ [][NextExtract]_vars

\* extract_game_info on a page of one container with the given text nodes
InitText ==
    /\ site = <<>>
    /\ target = 0
    /\ dom = 0
    /\ pc = "extract"
    /\ html_content \in {TextPage(nodes) : nodes \in NodeLists}
    /\ Idle

SpecText == InitText /\ [][NextExtract]_vars

-----------------------------------------------------------------------------
(* Properties.                                                             *)

Last(q) == q[Len(q)]

Range(q) == {q[k] : k \in 1..Len(q)}

DataRows == IF csv = <<>> THEN <<>> ELSE Tail(csv)

RECURSIVE SourceItems(_)
\* the item containers of the pages with the given indexes, one page after
\* the other, each page in document order
SourceItems(idx) ==
    IF idx = <<>> THEN <<>>
    ELSE CssGames(site[Head(idx)]) \o SourceItems(Tail(idx))

\* the link column tells which container a row was extracted from
LinkCol == CHOOSE i \in 1..Len(GameFields) : GameFields[i] = "link"

RowLinks == [k \in 1..Len(DataRows) |-> DataRows[k][LinkCol]]

ItemLinks(items) == [k \in 1..Len(items) |-> items[k].href]

\* the captures whose records the driver has passed to writerows
WrittenVisits ==
    IF \/ pc \in {"extract", "loop", "returned"}
       \/ pc = "aborted" /\ err \in {"NoHeading", "MalformedItem"}
    THEN Len(visited) - 1
    ELSE Len(visited)

WellFormedSite ==
    \A k \in 1..Len(site) : ~Defective(site[k])

\* C2: on a site of well-formed pages of which all but the last show the
\* next-page control, the loop does not abort, and a run that ends has
\* extracted and written every page exactly once and clicked once from every
\* page but the last.
C2_EveryPageOnce ==
    WellFormedSite =>
        /\ pc = "aborted" => visited = <<>>
        /\ pc = "done" =>
              /\ visited = [k \in 1..Len(site) |-> k]
              /\ clicks = [k \in 1..(Len(site) - 1) |-> k]
              /\ RowLinks = ItemLinks(SourceItems(visited))

\* title, release date, multiplayer flag, age criteria, rating system, link,
\* image, discount badge, original price and discounted price
MandatorySlots ==
    {"h3", "releasedate", "multiplayer", "rating", "ratingsystem", "href",
     "src", "badge", "price_s", "price_new"}

\* an item container lacks a structurally mandatory element or attribute
LacksMandatory(page) ==
    \E k \in 1..Len(CssGames(page)) :
        CssGames(page)[k].absent \cap MandatorySlots # {}

C4_AbortWithoutListing ==
    (visited # <<>> /\ "wrapper" \in site[Last(visited)].absent) =>
        pc = "aborted"

\* the page has its heading and its containers hold every element and
\* attribute but, possibly, the optional ones
WellFormedPage(page) ==
    /\ "h1" \notin page.absent
    /\ \A k \in 1..Len(CssGames(page)) :
          CssGames(page)[k].absent \subseteq OptionalSlots

\* C5: for a page with a heading and N containers holding every mandatory
\* element, extract_game_info returns N records of 17 fields, each field a
\* str, and the empty str where an optional sub-element is absent.
C5_AllFieldsStrings ==
    (pc = "returned" /\ WellFormedPage(html_content)) =>
        /\ Len(games_info) = Len(CssGames(html_content))
        /\ \A k \in 1..Len(games_info) :
              /\ DOMAIN games_info[k] = Range(GameFields)
              /\ Cardinality(DOMAIN games_info[k]) = 17
              /\ \A f \in DOMAIN games_info[k] : games_info[k][f] # None
              /\ ~Has(games[k], "ratingValue") =>
                     games_info[k].star_rating = <<>>
              /\ ~Has(games[k], "reviewtotal") =>
                     games_info[k].total_reviews = <<>>
              /\ ~Has(games[k], "paragraph3") =>
                     games_info[k].optimization = <<>>

\* C6: once the sink is open its first row is the header, the 17 field names
\* of Game in declaration order; it is written once and stays the only
\* header row; and column i of every data row written holds the value the
\* record has for the field that column i of the header names.
C6_HeaderAndColumns ==
    /\ [](/\ ~opened => csv = <<>>
          /\ opened =>
                /\ csv # <<>>
                /\ csv[1] = GameFields
                /\ Len(csv[1]) = 17
                /\ Len(csv) = 1 + Len(SourceItems(
                                       SubSeq(visited, 1, WrittenVisits)))
                /\ \A r \in 2..Len(csv) :
                      Len(csv[r]) = Len(csv[1]) /\ csv[r] # csv[1])
    /\ [][/\ csv # <<>> => (csv' # <<>> /\ csv'[1] = csv[1])
          /\ \A r \in (Len(csv) + 1)..Len(csv') :
                r >= 2 =>
                    \A i \in 1..Len(csv'[1]) :
                        csv'[r][i] =
                            CsvCell(games_info[r - Len(csv)][csv'[1][i]])]_vars

C6_Witness ==
    /\ pc = "done"
    /\ Len(csv) >= 4
    /\ \E r \in 2..Len(csv) : csv[r][11] = <<>>

\* C7: without a campaign heading extract_game_info fails and returns no
\* record, whatever the number of containers; with one, every record it
\* builds carries the heading's text as sales_title.
C7_Heading ==
    /\ "h1" \in html_content.absent =>
          /\ pc \in {"extract", "aborted"}
          /\ pc = "aborted" => err = "NoHeading"
          /\ games_info = <<>>
    /\ "h1" \notin html_content.absent =>
          \A k \in 1..Len(games_info) :
              games_info[k].sales_title = NodeText(html_content.h1)

C7_Witness ==
    /\ pc = "aborted"
    /\ err = "NoHeading"
    /\ Len(CssGames(html_content)) >= 1

\* C8: the markup captured after the k-th click is that of page k+1: the
\* captures are pages 1, 2, 3, ... with none taken twice and none left out.
C8_FreshMarkup ==
    \A k \in 1..Len(visited) : visited[k] = k

RECURSIVE Words(_), WordAt(_), AfterWord(_)
\* the first maximal run of non-whitespace characters of s and what follows
WordAt(s) ==
    IF s = <<>> \/ IsWs(Head(s)) THEN <<>>
    ELSE <<Head(s)>> \o WordAt(Tail(s))

AfterWord(s) ==
    IF s = <<>> \/ IsWs(Head(s)) THEN s ELSE AfterWord(Tail(s))

\* the words of s: its maximal runs of non-whitespace characters
Words(s) ==
    IF s = <<>> THEN <<>>
    ELSE IF IsWs(Head(s)) THEN Words(Tail(s))
    ELSE <<WordAt(s)>> \o Words(AfterWord(s))

\* s with every run of whitespace between two words turned into one space
SingleSpaced(s) == Join(<<" ">>, Words(s))

\* C9: title and description are the element's stripped text with every
\* internal run of whitespace replaced by one space, so that words stay
\* apart and no two whitespace characters follow each other.
C9_WhitespaceCollapsed ==
    pc = "returned" =>
        \A k \in 1..Len(games_info) :
            /\ games_info[k].title = SingleSpaced(NodeText(games[k].h3))
            /\ games_info[k].description =
                   SingleSpaced(NodeText(games[k].furthcontent))

====
